---- MODULE Spec2Model ----
(***************************************************************************)
(* Model of the webhook relay of main.py: POST /webhook parses a Telegram  *)
(* update, the bot dispatcher hands text messages that are not commands to *)
(* handle_message, which inserts a row into the study_material table,      *)
(* asks the completion service for an answer and replies to the chat.      *)
(*                                                                         *)
(* Every served request has its own program counter and its own locals.    *)
(* The external services (data store, completion service, Telegram) are    *)
(* the environment: their answers are nondeterministic, and every outbound *)
(* call a request makes is recorded, in order, in calls[r].                *)
(*                                                                         *)
(* The library calls are modelled by their contract: Update.de_json and    *)
(* the filters as python-telegram-bot documents them.  Where the outcome   *)
(* depends on the library version the model takes every outcome:           *)
(* Update.de_json of an empty body gives None or raises, and, because      *)
(* main.py never calls application.initialize(), process_update raises     *)
(* (the library rejects an Application that was not initialized) or        *)
(* dispatches.  An exception that leaves the view is Flask's 500 response. *)
(*                                                                         *)
(* Each of the three network calls is two steps, the request leaving and   *)
(* the answer coming back, with other requests running in between.  The    *)
(* insert returns or raises,                                               *)
(* and the store may have committed the row in either case; requests.post  *)
(* returns a body, raises, or (no timeout is passed) never returns;        *)
(* reply_text returns or raises.  An exception that leaves handle_message  *)
(* is caught and logged by the dispatcher (Application.process_update), so *)
(* the view still returns.                                                 *)
(***************************************************************************)
EXTENDS Integers, Sequences, FiniteSets, Bags, TLC

VARIABLES
    pc,              \* pc[r]: where request r stands in webhook / handle_message
    body,            \* body[r]: request.get_json(force=True)
    update,          \* update[r]: Update.de_json(body)
    user,            \* user[r]: local `user` of handle_message
    text,            \* text[r]: local `text` of handle_message
    ai_response,     \* ai_response[r]: local `ai_response` of handle_message
    calls,           \* calls[r]: the outbound calls of request r, in order
    http,            \* http[r]: the HTTP response of the webhook view
    fault,           \* fault[r]: an exception left handle_message
    committed,       \* committed[r]: the store has committed the row of r
    study_material   \* the rows of the external table, a bag

vars == <<pc, body, update, user, text, ai_response, calls, http, fault, committed,
          study_material>>

----------------------------------------------------------------------------
(* Bounds of the model.                                                    *)

\* Requests served in the specification Spec.
NumReqs == 1

\* Requests served concurrently in the specification ConcSpec.
NumConc == 2

Reqs == 1..NumReqs

ConcReqs == 1..NumConc

----------------------------------------------------------------------------
(* Python values.  An attribute that may be None is a sequence of length   *)
(* 0 or 1; a value handed to a JSON encoder keeps its JSON type.           *)

None == <<>>

Some(v) == <<v>>

JNum(n) == [type |-> "number", value |-> n]

JStr(s) == [type |-> "string", value |-> s]

JNull == [type |-> "null"]

\* json.dumps of an optional string: None becomes null.
JOptStr(o) == IF o = None THEN JNull ELSE JStr(o[1])

\* Python str() of an int, digit by digit; the source never calls it, the
\* properties about the stored user_id do.
Digit(d) == CASE d = 0 -> "0" [] d = 1 -> "1" [] d = 2 -> "2" [] d = 3 -> "3"
              [] d = 4 -> "4" [] d = 5 -> "5" [] d = 6 -> "6" [] d = 7 -> "7"
              [] d = 8 -> "8" [] d = 9 -> "9"

RECURSIVE str_int(_)
\* Python str() of a non-negative int.
str_int(n) == IF n < 10 THEN Digit(n) ELSE str_int(n \div 10) \o Digit(n % 10)

----------------------------------------------------------------------------
(* The inputs: the JSON bodies a client may POST.                          *)

ChatIds == {42}

\* A sender with a username and one without.
Users ==
    { [id |-> 7, is_bot |-> FALSE, first_name |-> "Ann", username |-> "ann"],
      [id |-> 8, is_bot |-> FALSE, first_name |-> "Bob"] }

Texts == {"", "/start", "What is osmosis?"}

BotCommandAt0 == <<[type |-> "bot_command", offset |-> 0, length |-> 6]>>

\* A command that is not at the start: the first entity is something else.
CommandLater ==
    <<[type |-> "bold", offset |-> 0, length |-> 4],
      [type |-> "bot_command", offset |-> 5, length |-> 6]>>

\* The text of a message and the entities Telegram marks in it: no text; a
\* text without entities; the command, marked as such at offset 0; a text
\* with a command further in.
TextForms ==
    { <<None, None>> }
        \cup { <<Some(s), None>> : s \in Texts \ {"/start"} }
        \cup { <<Some("/start"), Some(BotCommandAt0)>>,
               <<Some("What is osmosis?"), Some(CommandLater)>> }

\* A JSON object with just the keys that are present.
Field(k, o) == IF o = None THEN <<>> ELSE [x \in {k} |-> o[1]]

\* A message as Telegram sends it: message_id, date and chat always, the
\* sender, the text and the entities when there are any.
MessageJson(c, f, t, e) ==
    [message_id |-> 1, date |-> 0, chat |-> [id |-> c, type |-> "private"]]
        @@ Field("from", f) @@ Field("text", t) @@ Field("entities", e)

Messages ==
    { MessageJson(c, f, te[1], te[2]) :
        c \in ChatIds,
        f \in {None} \cup {Some(u) : u \in Users},
        te \in TextForms }

EmptyBody == <<>>

NoMessageBodies == {EmptyBody, [update_id |-> 1]}

\* Bodies Telegram would not send: no update_id; a message without
\* message_id, date and chat type.
MalformedBodies ==
    { [message |-> MessageJson(42, None, Some("What is osmosis?"), None)],
      [update_id |-> 1,
       message |-> [chat |-> [id |-> 42], text |-> "What is osmosis?"]] }

Updates ==
    NoMessageBodies \cup MalformedBodies
        \cup {[update_id |-> 1, message |-> m] : m \in Messages}

----------------------------------------------------------------------------
(* Update.de_json and the attributes of the parsed update.                 *)

HasKey(obj, k) == k \in DOMAIN obj

Get(obj, k) == IF HasKey(obj, k) THEN Some(obj[k]) ELSE None

\* The keys the constructors of the library require.
RequiredOfUser == {"id", "is_bot", "first_name"}

RequiredOfChat == {"id", "type"}

RequiredOfMessage == {"message_id", "date", "chat"}

RequiredOfEntity == {"type", "offset", "length"}

RequiredOfUpdate == {"update_id"}

\* Message.de_json can build the message: every required key is there.
MessageParses(m) ==
    /\ RequiredOfMessage \subseteq DOMAIN m
    /\ RequiredOfChat \subseteq DOMAIN m.chat
    /\ HasKey(m, "from") => RequiredOfUser \subseteq DOMAIN m["from"]
    /\ HasKey(m, "entities") =>
           \A i \in DOMAIN m.entities : RequiredOfEntity \subseteq DOMAIN m.entities[i]

\* Message.de_json: absent keys become None, absent entities the empty list.
Message_de_json(m) ==
    [chat      |-> m.chat,
     from_user |-> Get(m, "from"),
     text      |-> Get(m, "text"),
     entities  |-> IF HasKey(m, "entities") THEN m.entities ELSE <<>>]

Parsed(upd) == [raised |-> FALSE, value |-> upd]

ParseError == [raised |-> TRUE, error |-> "TypeError"]

\* Update.de_json(data, bot), line 62: the outcomes the library can give.
\* A body without a required key makes the constructor raise; for the
\* empty body the library returns None or, in the versions without that
\* shortcut, raises as well.
de_json(data) ==
    IF DOMAIN data = {} THEN {Parsed(None), ParseError}
    ELSE IF ~(RequiredOfUpdate \subseteq DOMAIN data) THEN {ParseError}
    ELSE IF HasKey(data, "message") /\ ~MessageParses(data.message) THEN {ParseError}
    ELSE {Parsed(Some([message |-> IF HasKey(data, "message")
                                   THEN Some(Message_de_json(data.message))
                                   ELSE None]))}

\* update.effective_message: the message of the update, None if it has none.
effective_message(upd) == IF upd = None THEN None ELSE upd[1].message

\* update.effective_user: the sender of the message, None if there is none.
effective_user(upd) ==
    IF effective_message(upd) = None THEN None
    ELSE effective_message(upd)[1].from_user

\* filters.TEXT: the message carries a non-empty text.
FilterText(msg) == msg.text # None /\ msg.text[1] # ""

\* filters.COMMAND: the first entity is a bot command at offset 0.
FilterCommand(msg) ==
    /\ Len(msg.entities) > 0
    /\ msg.entities[1].type = "bot_command"
    /\ msg.entities[1].offset = 0

\* A mutation of the handler's filter: the TEXT filter is dropped.
check_update_no_text(upd) ==
    /\ effective_message(upd) # None
    /\ ~FilterCommand(effective_message(upd)[1])

\* A mutation of the handler's filter: the ~COMMAND filter is dropped.
check_update_with_commands(upd) ==
    /\ effective_message(upd) # None
    /\ FilterText(effective_message(upd)[1])

\* MessageHandler(filters.TEXT & ~filters.COMMAND, handle_message).check_update
check_update(upd) ==
    /\ effective_message(upd) # None
    /\ FilterText(effective_message(upd)[1])
    /\ ~FilterCommand(effective_message(upd)[1])

----------------------------------------------------------------------------
(* The data store: supabase.table('study_material').insert({...}).execute() *)

\* A mutation of the row: the sender id is rendered as a string.
InsertRowStrId(u, t) ==
    [user_id  |-> JStr(str_int(u.id)),
     username |-> IF HasKey(u, "username") THEN JStr(u.username) ELSE JNull,
     content  |-> JOptStr(t),
     type     |-> JStr("text")]

\* The dict built at lines 46-51, as the JSON the store client sends.
InsertRow(u, t) ==
    [user_id  |-> JNum(u.id),
     username |-> IF HasKey(u, "username") THEN JStr(u.username) ELSE JNull,
     content  |-> JOptStr(t),
     type     |-> JStr("text")]

\* The body of the try block, lines 46-51, up to the call: `user.id`
\* raises while the dict is built when the update has no sender.
InsertAttempt(u) == [raised |-> u = None]

\* A mutation of the insert: no try/except around it.
InsertUnguarded(res) == res

\* Lines 45-53: try: ... except: pass.  Nothing raised inside leaves it.
InsertGuarded(res) == [res EXCEPT !.raised = FALSE]

----------------------------------------------------------------------------
(* The completion service and get_ai_response.                             *)

Completions == {"Osmosis is...", "4"}

Choice(s) == [message |-> [role |-> "assistant", content |-> s]]

\* What requests.post(...) does: it raises, or returns a response whose
\* body is not JSON (json = None) or is the JSON object json[1].
Failures ==
    { [kind |-> "raise", msg |-> "Connection refused"],
      [kind |-> "body", json |-> None],
      [kind |-> "body", json |-> Some([error |-> "rate limited"])],
      [kind |-> "body", json |-> Some([choices |-> <<>>])],
      [kind |-> "body", json |-> Some([choices |-> <<[message |-> [role |-> "assistant"]]>>])] }

Successes == { [kind |-> "body", json |-> Some([choices |-> <<Choice(s)>>])] : s \in Completions }

Responses == Failures \cup Successes

\* A mutation of the request: a fixed prompt is sent instead of the text.
CompletionRequestFixed(t) ==
    [model    |-> "google/gemini-2.0-flash-exp:free",
     messages |-> <<[role |-> "user", content |-> JStr("")]>>]

\* The json= argument of requests.post, lines 29-32.
CompletionRequest(t) ==
    [model    |-> "google/gemini-2.0-flash-exp:free",
     messages |-> <<[role |-> "user", content |-> JOptStr(t)]>>]

Return(v) == [raised |-> FALSE, value |-> v]

Raise(m) == [raised |-> TRUE, value |-> m]

\* Lines 23-35, the body of the try block: the value returned, or the
\* str() of the exception raised.
Extract(resp) ==
    IF resp.kind = "raise" THEN Raise(resp.msg)
    ELSE IF resp.json = None THEN Raise("Expecting value: line 1 column 1 (char 0)")
    ELSE LET result == resp.json[1] IN
         IF ~HasKey(result, "choices") THEN Raise("'choices'")
         ELSE IF Len(result.choices) = 0 THEN Raise("list index out of range")
         ELSE IF ~HasKey(result.choices[1], "message") THEN Raise("'message'")
         ELSE IF ~HasKey(result.choices[1].message, "content") THEN Raise("'content'")
         ELSE Return(result.choices[1].message.content)

\* A mutation of get_ai_response: no try/except around the call.
get_ai_response_uncaught(resp) == Extract(resp)

\* get_ai_response, lines 21-37, given what the service answered.
get_ai_response(resp) ==
    IF Extract(resp).raised
    THEN Return("AI Error: " \o Extract(resp).value)
    ELSE Extract(resp)

----------------------------------------------------------------------------
(* The reply and the HTTP response.                                        *)

\* The literal of line 57 before the placeholder.  The source spells the
\* line breaks as backslash-n, two characters each, and opens the line with
\* the four characters U+00F0 U+0178 U+201C U+0161, written here by their
\* code points because a TLA+ string holds ASCII only.
ReplyHeader == "<U+00F0><U+0178><U+201C><U+0161> Study Assistant:\\n\\n"

\* A mutation of the reply: the completion is left out.
ReplyTextHeaderOnly(ai) == ReplyHeader

\* The f-string of line 57.
ReplyText(ai) == ReplyHeader \o ai

\* A mutation of the view: it returns an empty body.
WebhookReturnEmpty == ""

\* The return value of the webhook view, line 64.
WebhookReturn == "ok"

\* What Flask answers when an exception leaves the view: webhook() has no
\* try block.
InternalServerError == "500 Internal Server Error"

\* application.process_update(update), line 63.  main.py builds the
\* Application (line 71) and never calls application.initialize(): a
\* library that checks this rejects the call and raises RuntimeError before
\* it looks at any handler.  Otherwise the one handler of line 72 is run
\* when its filter accepts the update.
process_update(upd, rejected) ==
    IF rejected THEN "raise"
    ELSE IF check_update(upd) THEN "handle_message"
    ELSE "return"

----------------------------------------------------------------------------
(* The statements of handle_message, in program order.                     *)

\* A mutation of the order: the completion comes before the insert.
StepAfterCompletionFirst(l) ==
    CASE l = "handle_message" -> "get_ai_response"
      [] l = "get_ai_response" -> "insert"
      [] l = "insert" -> "reply_text"
      [] l = "reply_text" -> "return"

\* Where control goes after the statement l of handle_message.
StepAfter(l) ==
    CASE l = "handle_message" -> "insert"
      [] l = "insert" -> "get_ai_response"
      [] l = "get_ai_response" -> "reply_text"
      [] l = "reply_text" -> "return"

----------------------------------------------------------------------------
(* The state machine.                                                      *)

Log(r, call) == [calls EXCEPT ![r] = Append(@, call)]

InitOver(R) ==
    /\ pc = [r \in R |-> "idle"]
    /\ body = [r \in R |-> None]
    /\ update = [r \in R |-> None]
    /\ user = [r \in R |-> None]
    /\ text = [r \in R |-> None]
    /\ ai_response = [r \in R |-> None]
    /\ calls = [r \in R |-> <<>>]
    /\ http = [r \in R |-> None]
    /\ fault = [r \in R |-> FALSE]
    /\ committed = [r \in R |-> FALSE]
    /\ study_material = EmptyBag

\* process_update and the view return, lines 63-64: nothing is awaited
\* between the end of the handler and `return 'ok'`.
ViewReturns(r) ==
    /\ pc' = [pc EXCEPT ![r] = "done"]
    /\ http' = [http EXCEPT ![r] = Some(WebhookReturn)]

\* Control moves to statement l of handle_message, or out of it.
Goto(r, l) ==
    IF l = "return"
    THEN ViewReturns(r)
    ELSE pc' = [pc EXCEPT ![r] = l] /\ UNCHANGED http

\* An exception leaves handle_message; the dispatcher logs it.
Escapes(r) ==
    /\ fault' = [fault EXCEPT ![r] = TRUE]
    /\ ViewReturns(r)

\* An exception leaves the view, lines 62-63: no 'ok' is returned.
ViewRaises(r) ==
    /\ pc' = [pc EXCEPT ![r] = "done"]
    /\ http' = [http EXCEPT ![r] = Some(InternalServerError)]

\* webhook(), line 62: Update.de_json raises on the body b.
WebhookParseFails(r, b) ==
    /\ pc[r] = "idle"
    /\ ParseError \in de_json(b)
    /\ body' = [body EXCEPT ![r] = Some(b)]
    /\ ViewRaises(r)
    /\ UNCHANGED <<update, user, text, ai_response, calls, fault, committed,
                   study_material>>

\* webhook(), lines 61-63, up to the dispatch of process_update: the body
\* is parsed into upd; process_update raises, or the handler's filter
\* accepts the update and handle_message starts and reads its two locals
\* (lines 41-42), or it does not and the view returns.
Webhook(r, b, upd, rejected) ==
    /\ pc[r] = "idle"
    /\ Parsed(upd) \in de_json(b)
    /\ body' = [body EXCEPT ![r] = Some(b)]
    /\ update' = [update EXCEPT ![r] = upd]
    /\ CASE process_update(upd, rejected) = "raise" ->
                /\ ViewRaises(r)
                /\ UNCHANGED <<user, text>>
         [] process_update(upd, rejected) = "handle_message" ->
                /\ user' = [user EXCEPT ![r] = effective_user(upd)]
                /\ text' = [text EXCEPT ![r] = effective_message(upd)[1].text]
                /\ Goto(r, StepAfter("handle_message"))
         [] process_update(upd, rejected) = "return" ->
                /\ ViewReturns(r)
                /\ UNCHANGED <<user, text>>
    /\ UNCHANGED <<ai_response, calls, fault, committed, study_material>>

\* handle_message, lines 46-51: the dict is built and the insert is sent.
\* Without a sender `user.id` raises before anything is sent, and the
\* except clause of line 52 swallows it.
SendInsert(r) ==
    /\ pc[r] = "insert"
    /\ IF InsertAttempt(user[r]).raised
       THEN /\ IF InsertGuarded(InsertAttempt(user[r])).raised
               THEN Escapes(r)
               ELSE Goto(r, StepAfter("insert")) /\ UNCHANGED fault
            /\ UNCHANGED calls
       ELSE /\ calls' = Log(r, [svc |-> "store", op |-> "insert",
                                table |-> "study_material",
                                row |-> InsertRow(user[r][1], text[r])])
            /\ pc' = [pc EXCEPT ![r] = "insert_wait"]
            /\ UNCHANGED <<http, fault>>
    /\ UNCHANGED <<body, update, user, text, ai_response, committed, study_material>>

\* The store commits the row of the insert in flight.
StoreCommits(r) ==
    /\ pc[r] = "insert_wait"
    /\ ~committed[r]
    /\ committed' = [committed EXCEPT ![r] = TRUE]
    /\ study_material' = study_material (+) SetToBag({calls[r][Len(calls[r])].row})
    /\ UNCHANGED <<pc, body, update, user, text, ai_response, calls, http, fault>>

\* execute() comes back, lines 51-53: it returns once the row is committed,
\* or raises (the row committed or not); the except clause swallows it.
InsertReturns(r, raised) ==
    /\ pc[r] = "insert_wait"
    /\ ~raised => committed[r]
    /\ calls' = Log(r, [svc |-> "store", op |-> "result", raised |-> raised])
    /\ IF InsertGuarded([raised |-> raised]).raised
       THEN Escapes(r)
       ELSE Goto(r, StepAfter("insert")) /\ UNCHANGED fault
    /\ UNCHANGED <<body, update, user, text, ai_response, committed, study_material>>

\* get_ai_response, lines 23-33: the request is posted; no timeout is given.
PostCompletion(r) ==
    /\ pc[r] = "get_ai_response"
    /\ calls' = Log(r, [svc |-> "completion", op |-> "post",
                        json |-> CompletionRequest(text[r])])
    /\ pc' = [pc EXCEPT ![r] = "ai_wait"]
    /\ UNCHANGED <<body, update, user, text, ai_response, http, fault, committed,
                   study_material>>

\* The completion service answers (or the call raises); get_ai_response
\* returns and handle_message binds ai_response, lines 34-37 and 56.
CompletionReturns(r, resp) ==
    /\ pc[r] = "ai_wait"
    /\ calls' = Log(r, [svc |-> "completion", op |-> "response", response |-> resp])
    /\ IF get_ai_response(resp).raised
       THEN /\ Escapes(r)
            /\ UNCHANGED ai_response
       ELSE /\ ai_response' = [ai_response EXCEPT ![r] = Some(get_ai_response(resp).value)]
            /\ Goto(r, StepAfter("get_ai_response"))
            /\ UNCHANGED fault
    /\ UNCHANGED <<body, update, user, text, committed, study_material>>

\* handle_message, line 57: update.message.reply_text(...) is sent and the
\* coroutine is suspended.
SendReply(r) ==
    /\ pc[r] = "reply_text"
    /\ calls' = Log(r, [svc |-> "telegram", op |-> "sendMessage",
                        chat_id |-> update[r][1].message[1].chat.id,
                        text |-> ReplyText(ai_response[r][1])])
    /\ pc' = [pc EXCEPT ![r] = "reply_wait"]
    /\ UNCHANGED <<body, update, user, text, ai_response, http, fault, committed,
                   study_material>>

\* The await of line 57 resumes: Telegram accepted the message, or
\* reply_text raises; line 57 is in no try block, so the exception leaves
\* handle_message.
ReplyReturns(r, raised) ==
    /\ pc[r] = "reply_wait"
    /\ calls' = Log(r, [svc |-> "telegram", op |-> "result", raised |-> raised])
    /\ IF raised
       THEN Escapes(r)
       ELSE Goto(r, StepAfter("reply_text")) /\ UNCHANGED fault
    /\ UNCHANGED <<body, update, user, text, ai_response, committed, study_material>>

\* One step of request r, its body drawn from U and the completion
\* service's answer from A.
Step(r, U, A) ==
    \/ \E b \in U : WebhookParseFails(r, b)
    \/ \E b \in U, rejected \in BOOLEAN :
           \E o \in {p \in de_json(b) : ~p.raised} : Webhook(r, b, o.value, rejected)
    \/ SendInsert(r)
    \/ StoreCommits(r)
    \/ \E raised \in BOOLEAN : InsertReturns(r, raised)
    \/ PostCompletion(r)
    \/ \E resp \in A : CompletionReturns(r, resp)
    \/ SendReply(r)
    \/ \E raised \in BOOLEAN : ReplyReturns(r, raised)

Init == InitOver(Reqs)

Next == \E r \in Reqs : Step(r, Updates, Responses)

Spec == Init /\ [][Next]_vars

\* The steps of the program itself are taken when they can be.  The store
\* client and the Telegram client have default timeouts, so their calls
\* come back (StoreCommits is the store's own step and is not forced).
\* requests.post is given no timeout: whether it ever comes back is up to
\* the completion service.
Fairness ==
    \A r \in Reqs :
        /\ WF_vars(SendInsert(r))
        /\ WF_vars(\E raised \in BOOLEAN : InsertReturns(r, raised))
        /\ WF_vars(PostCompletion(r))
        /\ WF_vars(SendReply(r))
        /\ WF_vars(\E raised \in BOOLEAN : ReplyReturns(r, raised))

FairSpec == Init /\ [][Next]_vars /\ Fairness

\* Concurrent requests, over a sample of the inputs.
ConcUpdates ==
    { EmptyBody,
      [update_id |-> 1,
       message |-> MessageJson(42, Some([id |-> 42, is_bot |-> FALSE, first_name |-> "Bob"]),
                               Some("What is osmosis?"), None)],
      [update_id |-> 2,
       message |-> MessageJson(7, Some([id |-> 7, is_bot |-> FALSE, first_name |-> "Ann",
                                        username |-> "ann"]),
                               Some("hi"), None)] }

ConcResponses ==
    { [kind |-> "raise", msg |-> "Connection refused"],
      [kind |-> "body", json |-> Some([choices |-> <<Choice("Osmosis is...")>>])] }

ConcInit == InitOver(ConcReqs)

ConcNext == \E r \in ConcReqs : Step(r, ConcUpdates, ConcResponses)

ConcSpec == ConcInit /\ [][ConcNext]_vars

----------------------------------------------------------------------------
(* Vocabulary of the properties, read off the request body and the calls.  *)

Served == DOMAIN pc

Arrived(r) == body[r] # None

LacksMessage(r) == Arrived(r) /\ ~HasKey(body[r][1], "message")

HasMessage(r) == Arrived(r) /\ HasKey(body[r][1], "message")

Msg(r) == body[r][1].message

HasText(r) == HasMessage(r) /\ HasKey(Msg(r), "text")

NonEmptyText(r) == HasText(r) /\ Msg(r).text # ""

IsCommand(r) ==
    /\ HasMessage(r)
    /\ HasKey(Msg(r), "entities")
    /\ Len(Msg(r).entities) > 0
    /\ Msg(r).entities[1].type = "bot_command"
    /\ Msg(r).entities[1].offset = 0

HasSender(r) == HasMessage(r) /\ HasKey(Msg(r), "from")

\* The handler's case: a non-empty text that is not a bot command.
PlainText(r) == NonEmptyText(r) /\ ~IsCommand(r)

Sel(r, s, o) == SelectSeq(calls[r], LAMBDA c : c.svc = s /\ c.op = o)

Posts(r) == Sel(r, "completion", "post")

Answers(r) == Sel(r, "completion", "response")

Inserts(r) == Sel(r, "store", "insert")

Replies(r) == Sel(r, "telegram", "sendMessage")

InsertRaised(r) == Sel(r, "store", "result") # <<>> /\ Sel(r, "store", "result")[1].raised

InsertSucceeded(r) == Sel(r, "store", "result") # <<>> /\ ~Sel(r, "store", "result")[1].raised

ReplyRaised(r) == Sel(r, "telegram", "result") # <<>> /\ Sel(r, "telegram", "result")[1].raised

IsCall(c) == c.op \in {"insert", "post", "sendMessage"}

Is(c, s, o) == c.svc = s /\ c.op = o

FailedCompletion(r) == Answers(r) # <<>> /\ Answers(r)[1].response \in Failures

SucceededCompletion(r) == Answers(r) # <<>> /\ Answers(r)[1].response \in Successes

CompletionText(r) == Answers(r)[1].response.json[1].choices[1].message.content

UserMessage(t) == <<[role |-> "user", content |-> JStr(t)]>>

\* handle_message was entered for r: its local `text` is bound (line 42;
\* the handler's filter lets no update without a text through).
Entered(r) == text[r] # None

\* The HTTP responses of the view: its return value, or the 500 that Flask
\* makes of an exception raised by Update.de_json or process_update.
ViewResponses == {Some("ok"), Some("500 Internal Server Error")}

----------------------------------------------------------------------------
(* C1: a body without the message structure.                               *)

NotOkJson == "{\"ok\": false}"

----------------------------------------------------------------------------
(* C2: the completion call fails.                                          *)

\* C2: whenever the completion call fails (the call raises, the body is
\* not JSON, or the JSON lacks choices[0].message.content), no exception
\* leaves get_ai_response or handle_message, the answer bound is the
\* non-empty string "AI Error: " followed by the error, the handler sends
\* exactly one reply that carries it, and the view returns 'ok'.
C2_DegradedReplyOnFailure ==
    \A r \in Served :
        FailedCompletion(r) =>
            /\ ~fault[r]
            /\ ai_response[r] # None
            /\ Len(ai_response[r][1]) >= Len("AI Error: ")
            /\ SubSeq(ai_response[r][1], 1, Len("AI Error: ")) = "AI Error: "
            /\ pc[r] = "done" =>
                   /\ Len(Replies(r)) = 1
                   /\ Replies(r)[1].text = ReplyHeader \o ai_response[r][1]
                   /\ Replies(r)[1].text # ""
                   /\ http[r] = Some("ok")

----------------------------------------------------------------------------
(* C3: the insert raises.                                                  *)

\* C3: a request whose insert raised still makes its completion call and
\* sends its reply, and of two requests with the same body and the same
\* answer of the completion service, one whose insert succeeded and one
\* whose insert raised, both send the same reply and get the same HTTP
\* response.
C3_ReplyIndependentOfStore ==
    /\ \A r \in Served :
           (pc[r] = "done" /\ InsertRaised(r)) =>
               /\ Len(Posts(r)) = 1
               /\ Len(Replies(r)) = 1
    /\ \A r1, r2 \in Served :
           ( /\ pc[r1] = "done" /\ pc[r2] = "done"
             /\ body[r1] = body[r2]
             /\ Answers(r1) = Answers(r2)
             /\ InsertSucceeded(r1)
             /\ InsertRaised(r2) ) =>
               /\ Replies(r1) = Replies(r2)
               /\ http[r1] = http[r2]

C3_Witness ==
    \E r1, r2 \in Served :
        /\ pc[r1] = "done" /\ pc[r2] = "done"
        /\ body[r1] = body[r2]
        /\ Answers(r1) = Answers(r2) /\ SucceededCompletion(r1)
        /\ InsertSucceeded(r1)
        /\ InsertRaised(r2)
        /\ Len(Replies(r2)) = 1

----------------------------------------------------------------------------
(* C4: one completion call per message.                                    *)

----------------------------------------------------------------------------
(* C5: the reply of a successful completion.                               *)

OkResponseJson(s) == "{\"ok\": true, \"response\": \"" \o s \o "\"}"

\* C5 as stated: when the completion call succeeds with the string s, the
\* reply payload is s itself: the HTTP response {ok: true, response: s}, or
\* a reply call whose text is s.
C5_ReplyIsCompletion ==
    \A r \in Served :
        (pc[r] = "done" /\ SucceededCompletion(r)) =>
            \/ http[r] = Some(OkResponseJson(CompletionText(r)))
            \/ Replies(r) # <<>> /\ Replies(r)[1].text = CompletionText(r)

\* C5 as amended: when the completion call succeeds with the string s, the
\* handler makes one reply call to the chat of the message whose text is
\* the fixed header of line 57 followed by s, and the HTTP response is the
\* plain body 'ok'.
C5_ReplyIsHeaderAndCompletion ==
    \A r \in Served :
        (pc[r] \in {"reply_wait", "done"} /\ SucceededCompletion(r)) =>
            /\ Len(Replies(r)) = 1
            /\ Replies(r)[1].text = ReplyHeader \o CompletionText(r)
            /\ Replies(r)[1].chat_id = Msg(r).chat.id
            /\ pc[r] = "done" => http[r] = Some("ok")

C5_Witness ==
    \E r \in Served :
        /\ pc[r] = "done"
        /\ SucceededCompletion(r)
        /\ CompletionText(r) = "Osmosis is..."
        /\ Len(Replies(r)) = 1

----------------------------------------------------------------------------
(* C6: the persisted record.                                               *)

----------------------------------------------------------------------------
(* C7: the order of the effects of one request.                            *)

\* C7 as stated: the completion call is issued and has returned before the
\* insert is attempted, the reply is sent only after the completion call
\* has returned, and no two effects overlap (a call is issued only when
\* the one before it has come back).
C7_CompletionBeforeInsert ==
    \A r \in Served :
        \A i \in DOMAIN calls[r] :
            /\ Is(calls[r][i], "store", "insert") =>
                   \E j \in 1..(i - 1) : Is(calls[r][j], "completion", "response")
            /\ Is(calls[r][i], "telegram", "sendMessage") =>
                   \E j \in 1..(i - 1) : Is(calls[r][j], "completion", "response")
            /\ (IsCall(calls[r][i]) /\ i < Len(calls[r])) =>
                   /\ ~IsCall(calls[r][i + 1])
                   /\ calls[r][i + 1].svc = calls[r][i].svc

\* C7 as amended: the insert is attempted, and has returned or raised,
\* before the completion call is issued; the reply is sent only after the
\* completion call has returned; and no two effects overlap (a call is
\* issued only when the one before it has come back).
C7_InsertBeforeCompletion ==
    \A r \in Served :
        \A i \in DOMAIN calls[r] :
            /\ calls[r][i].svc = "store" =>
                   \A j \in 1..i : calls[r][j].svc = "store"
            /\ Is(calls[r][i], "completion", "post") =>
                   (Inserts(r) # <<>> => \E j \in 1..(i - 1) : Is(calls[r][j], "store", "result"))
            /\ Is(calls[r][i], "telegram", "sendMessage") =>
                   \E j \in 1..(i - 1) : Is(calls[r][j], "completion", "response")
            /\ (IsCall(calls[r][i]) /\ i < Len(calls[r])) =>
                   /\ ~IsCall(calls[r][i + 1])
                   /\ calls[r][i + 1].svc = calls[r][i].svc

C7_Witness ==
    \E r \in Served :
        /\ pc[r] = "done"
        /\ Len(calls[r]) = 6
        /\ Is(calls[r][1], "store", "insert")
        /\ Is(calls[r][2], "store", "result")
        /\ Is(calls[r][3], "completion", "post")
        /\ Is(calls[r][4], "completion", "response")
        /\ Is(calls[r][5], "telegram", "sendMessage")
        /\ Is(calls[r][6], "telegram", "result")

----------------------------------------------------------------------------
(* C8: a completion service that never answers.                            *)

\* C8: every request that waits for the completion service eventually
\* completes with a reply, because the call is given up after a bounded
\* time when the service does not answer.
C8_EveryRequestCompletes ==
    \A r \in Reqs :
        (pc[r] = "ai_wait") ~> (pc[r] = "done" /\ Replies(r) # <<>>)

----------------------------------------------------------------------------
(* C9: requests served concurrently.                                       *)

\* The answer handle_message is to relay for what the service told r.
OwnAnswer(r) ==
    IF Answers(r)[1].response.kind = "raise"
    THEN "AI Error: " \o Answers(r)[1].response.msg
    ELSE CompletionText(r)

StoredBy(r) == committed[r]

\* C9: under every interleaving of the requests, each request's completion
\* call carries only its own text, its record carries only its own sender
\* id and text, its reply goes to its own chat with the completion it
\* obtained itself, its locals hold only values of its own body, and the
\* table holds exactly the rows the store committed, one per request.
C9_RequestsIsolated ==
    /\ \A r \in Served :
           /\ LacksMessage(r) => calls[r] = <<>>
           /\ ~Arrived(r) => calls[r] = <<>>
           /\ text[r] # None => HasText(r) /\ text[r] = Some(Msg(r).text)
           /\ user[r] # None => HasSender(r) /\ user[r] = Some(Msg(r)["from"])
           /\ \A i \in DOMAIN calls[r] :
                  /\ Is(calls[r][i], "completion", "post") =>
                         calls[r][i].json.messages = UserMessage(Msg(r).text)
                  /\ Is(calls[r][i], "store", "insert") =>
                         /\ calls[r][i].row.user_id = JNum(Msg(r)["from"].id)
                         /\ calls[r][i].row.content = JStr(Msg(r).text)
                  /\ Is(calls[r][i], "telegram", "sendMessage") =>
                         /\ calls[r][i].chat_id = Msg(r).chat.id
                         /\ calls[r][i].text = ReplyHeader \o OwnAnswer(r)
    /\ BagToSet(study_material) = {Inserts(r)[1].row : r \in {q \in Served : StoredBy(q)}}
    /\ BagCardinality(study_material) = Cardinality({q \in Served : StoredBy(q)})

C9_Witness ==
    \E r1, r2 \in Served :
        /\ HasMessage(r1) /\ HasMessage(r2)
        /\ Msg(r1).text # Msg(r2).text
        /\ Msg(r1).chat.id # Msg(r2).chat.id
        /\ pc[r1] = "insert_wait"
        /\ pc[r2] = "done"
        /\ ~StoredBy(r1) /\ StoredBy(r2)
        /\ Len(Replies(r2)) = 1
        /\ SucceededCompletion(r2)

----------------------------------------------------------------------------
(* C10: a message without a text field.                                    *)

====
